---- MODULE Spec2Model ----
(***************************************************************************)
(* Commit-Reveal^2: the direct contract (OnChainCommitReveal2), the hybrid *)
(* leader (LeaderNode) and the hybrid verifier (HybridContract), as state  *)
(* machines.                                                               *)
(*                                                                         *)
(* Byte strings are sequences of HashBits-wide blocks; a 32-byte value     *)
(* (s, co, cv, a digest) is one block, held as a number in Values.         *)
(* Python dicts keyed by address are total functions over Addresses whose  *)
(* absent keys map to None.                                                *)
(***************************************************************************)
EXTENDS Integers, Sequences, FiniteSets, TLC

\* ---- bounds ----
NumAddr == 3
HashBits == 2
NumLeaderAddr == 2
NumSecrets == 2

Addresses == 1..NumAddr
LeaderAddresses == 1..NumLeaderAddr
\* a verifying key is named by the address get_address derives from it
VKeys == LeaderAddresses
OwnKey(address) == address
Modulus == 2^HashBits
Values == 0..(Modulus - 1)
None == -1

\* ---- crypto_utils ----

\* a ^ b on blocks (Python's int xor, bit by bit)
RECURSIVE Xor(_, _)
Xor(a, b) ==
    IF a = 0 THEN b
    ELSE IF b = 0 THEN a
    ELSE (((a % 2) + (b % 2)) % 2) + 2 * Xor(a \div 2, b \div 2)

\* the permutation applied per absorbed block (full-period, no fixed point)
KeccakF(x) == (5 * x + 3) % Modulus

RECURSIVE Absorb(_, _)
Absorb(h, data) ==
    IF data = <<>> THEN h
    ELSE Absorb(KeccakF(Xor(h, Head(data))), Tail(data))

\* hash_function(data): Keccak-256 of a byte string, one block out
hash_function(data) == Absorb(0, data)

\* the secrets participants draw (generate_secret) and the commitments
\* they derive from them (Participant.generate_commitments)
Secrets == 0..(NumSecrets - 1)
HonestCv == {hash_function(<<hash_function(<<s>>)>>) : s \in Secrets}

\* ---- direct contract state (OnChainCommitReveal2) ----
VARIABLES participant_addresses, phase, commitments_cv, commitments_co,
          revealed_secrets_s, reveal_order_metrics, omega_v, reveal_order,
          omega_o

\* ---- leader state (LeaderNode) ----
VARIABLES participants, address_to_vk, activated_addresses,
          received_cv_signed, received_co, received_s_signed,
          merkle_root_cv, leader_reveal_order, leader_omega_v,
          all_cv_received, all_co_received, all_s_received

\* ---- hybrid verifier state (HybridContract); hc_ marks the attributes
\* whose names the other two classes use as well ----
VARIABLES leader_address, participant_vks, hc_activated_addresses,
          hc_merkle_root_cv, hc_omega_o, hc_phase

\* ---- which of the objects this run has constructed ----
VARIABLE deployed

\* ---- the call last served: its return value, the last line it logged,
\* and the method and sender ----
VARIABLES ret, log, call

contractVars == <<participant_addresses, phase, commitments_cv, commitments_co,
                  revealed_secrets_s, reveal_order_metrics, omega_v,
                  reveal_order, omega_o>>

leaderVars == <<participants, address_to_vk, activated_addresses,
                received_cv_signed, received_co, received_s_signed,
                merkle_root_cv, leader_reveal_order, leader_omega_v,
                all_cv_received, all_co_received, all_s_received>>

verifierVars == <<leader_address, participant_vks, hc_activated_addresses,
                  hc_merkle_root_cv, hc_omega_o, hc_phase>>

vars == <<contractVars, leaderVars, verifierVars, deployed, ret, log, call>>

\* the call being served: the method and its sender argument
Call(op, sender) == [op |-> op, sender |-> sender]

EmptyDict == [a \in Addresses |-> None]

\* merkle_root_cv = None
NoRoot == <<>>

\* the keys of a dict
Keys(d) == {a \in DOMAIN d : d[a] # None}

\* len(d) of a dict
DictLen(d) == Cardinality({a \in DOMAIN d : d[a] # None})

\* dicts of the leader; those holding (value, signature) tuples mark an
\* absent key by the empty tuple
LeaderEmptyDict == [a \in LeaderAddresses |-> None]
NoPair == <<>>
LeaderEmptyPairs == [a \in LeaderAddresses |-> NoPair]
PairKeys(d) == {a \in DOMAIN d : d[a] # NoPair}
PairLen(d) == Cardinality(PairKeys(d))

\* `addr in d`
InDict(a, d) == d[a] # None

\* LeaderNode.__init__
LeaderFresh ==
    /\ participants = {}
    /\ address_to_vk = LeaderEmptyDict
    /\ activated_addresses = <<>>
    /\ received_cv_signed = LeaderEmptyPairs
    /\ received_co = LeaderEmptyDict
    /\ received_s_signed = LeaderEmptyPairs
    /\ merkle_root_cv = NoRoot
    /\ leader_reveal_order = <<>>
    /\ leader_omega_v = None
    /\ all_cv_received = FALSE
    /\ all_co_received = FALSE
    /\ all_s_received = FALSE

\* the leader's own address (LeaderNode.address), which is no participant's
LeaderAddress == 0

\* HybridContract.__init__(leader.address)
VerifierFresh ==
    /\ leader_address = LeaderAddress
    /\ participant_vks = LeaderEmptyDict
    /\ hc_activated_addresses = <<>>
    /\ hc_merkle_root_cv = NoRoot
    /\ hc_omega_o = None
    /\ hc_phase = "AWAITING_ROOT"

\* OnChainCommitReveal2.__init__
Init ==
    /\ deployed = "direct"
    /\ LeaderFresh
    /\ VerifierFresh
    /\ participant_addresses \in SUBSET Addresses
    /\ phase = "COMMIT"
    /\ commitments_cv = EmptyDict
    /\ commitments_co = EmptyDict
    /\ revealed_secrets_s = EmptyDict
    /\ reveal_order_metrics = EmptyDict
    /\ omega_v = None
    /\ reveal_order = <<>>
    /\ omega_o = None
    /\ ret = "none"
    /\ log = "Initialized contract"
    /\ call = Call("__init__", 0)

\* variant: a call that is turned down forgets the reveal order
RejectForgetsOrder(msg) ==
    /\ ret' = "reject"
    /\ log' = msg
    /\ reveal_order' = <<>>
    /\ UNCHANGED <<participant_addresses, phase, commitments_cv,
                   commitments_co, revealed_secrets_s, reveal_order_metrics,
                   omega_v, omega_o>>

\* a call that logs a warning and returns False: no attribute is written
Reject(msg) ==
    /\ ret' = "reject"
    /\ log' = msg
    /\ UNCHANGED contractVars

\* variant: the commit phase hands over straight to the secret reveal
AdvanceAfterCvSkip(stored) ==
    IF DictLen(stored) = Cardinality(participant_addresses)
    THEN "REVEAL2" ELSE phase

\* variant: the phase moves on one cv early
AdvanceAfterCvEarly(stored) ==
    IF DictLen(stored) >= Cardinality(participant_addresses) - 1
    THEN "REVEAL1" ELSE phase

\* len(self.commitments_cv) == len(self.participant_addresses), then REVEAL1
AdvanceAfterCv(stored) ==
    IF DictLen(stored) = Cardinality(participant_addresses)
    THEN "REVEAL1" ELSE phase

\* variant: submit_cv without the duplicate check of line 67
submit_cv_nodup(sender_address, cv) ==
    /\ call' = Call("submit_cv", sender_address)
    /\ UNCHANGED <<leaderVars, verifierVars, deployed>>
    /\ IF phase # "COMMIT" THEN Reject("Invalid phase for cv submission")
       ELSE IF sender_address \notin participant_addresses
            THEN Reject("Unknown participant address")
       ELSE LET stored == [commitments_cv EXCEPT ![sender_address] = cv] IN
            /\ commitments_cv' = stored
            /\ phase' = AdvanceAfterCv(stored)
            /\ ret' = "accept"
            /\ log' = IF phase' = "REVEAL1" THEN "Advanced to REVEAL1 phase"
                      ELSE "Accepted cv"
            /\ UNCHANGED <<participant_addresses, commitments_co,
                           revealed_secrets_s, reveal_order_metrics, omega_v,
                           reveal_order, omega_o>>

\* variant: submit_cv without the membership check of line 63
submit_cv_unregistered(sender_address, cv) ==
    /\ call' = Call("submit_cv", sender_address)
    /\ UNCHANGED <<leaderVars, verifierVars, deployed>>
    /\ IF phase # "COMMIT" THEN Reject("Invalid phase for cv submission")
       ELSE IF InDict(sender_address, commitments_cv)
            THEN Reject("Duplicate cv submission")
       ELSE LET stored == [commitments_cv EXCEPT ![sender_address] = cv] IN
            /\ commitments_cv' = stored
            /\ phase' = AdvanceAfterCv(stored)
            /\ ret' = "accept"
            /\ log' = IF phase' = "REVEAL1" THEN "Advanced to REVEAL1 phase"
                      ELSE "Accepted cv"
            /\ UNCHANGED <<participant_addresses, commitments_co,
                           revealed_secrets_s, reveal_order_metrics, omega_v,
                           reveal_order, omega_o>>

\* submit_cv
submit_cv(sender_address, cv) ==
    /\ call' = Call("submit_cv", sender_address)
    /\ UNCHANGED <<leaderVars, verifierVars, deployed>>
    /\ IF phase # "COMMIT" THEN Reject("Invalid phase for cv submission")
       ELSE IF sender_address \notin participant_addresses
            THEN Reject("Unknown participant address")
       ELSE IF InDict(sender_address, commitments_cv)
            THEN Reject("Duplicate cv submission")
       ELSE LET stored == [commitments_cv EXCEPT ![sender_address] = cv] IN
            /\ commitments_cv' = stored
            /\ phase' = AdvanceAfterCv(stored)
            /\ ret' = "accept"
            /\ log' = IF phase' = "REVEAL1" THEN "Advanced to REVEAL1 phase"
                      ELSE "Accepted cv"
            /\ UNCHANGED <<participant_addresses, commitments_co,
                           revealed_secrets_s, reveal_order_metrics, omega_v,
                           reveal_order, omega_o>>

\* a call that raises before any attribute is written (KeyError, IndexError)
Raise ==
    /\ ret' = "raise"
    /\ UNCHANGED <<contractVars, log>>

\* `for a, b in zip(*self.commitments_cv.values())`: zip yields one tuple per
\* byte position, with one component per dict value; the target `a, b`
\* unpacks it only when the dict holds exactly two values, else ValueError.
ZipUnpacks(cvs) == DictLen(cvs) = 2

\* bytes(a ^ b for a, b in zip(*cvs.values())), for a dict of two values
XorOfValues(cvs) ==
    LET x == CHOOSE a \in Keys(cvs) : TRUE
        y == CHOOSE b \in Keys(cvs) \ {x} : TRUE
    IN Xor(cvs[x], cvs[y])

\* d_i = int.from_bytes(hash_function(omega_v ^ cv_i), 'big'); the big-endian
\* value of a one-block digest is the block
Metrics(cvs, om) ==
    [a \in Addresses |->
        IF InDict(a, cvs) THEN hash_function(<<Xor(om, cvs[a])>>) ELSE None]

\* all orderings of a set, as sequences
Orderings(S) ==
    {f \in [1..Cardinality(S) -> S] : \A i, j \in DOMAIN f : i # j => f[i] # f[j]}

\* variant: the sorted list loses its last entry
SortedByMetricShort(S, m) ==
    {SubSeq(f, 1, Len(f) - 1) :
        f \in {g \in Orderings(S) :
                  \A i, j \in DOMAIN g : i < j => m[g[i]] <= m[g[j]]}}

\* sorted(participant_addresses, key=metrics): ascending by key; sorted() is
\* stable, and the iteration order of a set of bytes objects is not fixed
\* (hash randomisation), so equal keys may come out in either order
SortedByMetric(S, m) ==
    {f \in Orderings(S) : \A i, j \in DOMAIN f : i < j => m[f[i]] <= m[f[j]]}

\* _compute_reveal_order, past the omega_v line
SetRevealOrder ==
    LET om == XorOfValues(commitments_cv)
        m == Metrics(commitments_cv, om)
    IN /\ omega_v' = om
       /\ reveal_order_metrics' = m
       /\ reveal_order' \in SortedByMetric(participant_addresses, m)

\* variant: the hash-chain check of co is skipped
CoMatchesCvAlways(co, cv) == TRUE

\* H(co) == cv   (submit_co line 104-105)
CoMatchesCv(co, cv) == hash_function(<<co>>) = cv

\* submit_co
submit_co(sender_address, co) ==
    /\ call' = Call("submit_co", sender_address)
    /\ UNCHANGED <<leaderVars, verifierVars, deployed>>
    /\ IF phase # "REVEAL1" THEN Reject("Invalid phase for co submission")
       ELSE IF sender_address \notin participant_addresses
            THEN Reject("Unknown participant address")
       ELSE IF InDict(sender_address, commitments_co)
            THEN Reject("Duplicate co submission")
       ELSE IF ~InDict(sender_address, commitments_cv) THEN Raise
       ELSE IF ~CoMatchesCv(co, commitments_cv[sender_address])
            THEN Reject("Invalid co: hash mismatch")
       ELSE LET stored == [commitments_co EXCEPT ![sender_address] = co] IN
            /\ commitments_co' = stored
            /\ UNCHANGED <<participant_addresses, commitments_cv,
                           revealed_secrets_s, omega_o>>
            /\ IF DictLen(stored) = Cardinality(participant_addresses)
               THEN IF ZipUnpacks(commitments_cv)
                    THEN /\ SetRevealOrder
                         /\ phase' = "REVEAL2"
                         /\ ret' = "accept"
                         /\ log' = "Advanced to REVEAL2 phase"
                    ELSE \* ValueError out of _compute_reveal_order, after the
                         \* co was stored and before omega_v is assigned
                         /\ ret' = "raise"
                         /\ log' = "Accepted co"
                         /\ UNCHANGED <<phase, reveal_order_metrics, omega_v,
                                        reveal_order>>
               ELSE /\ ret' = "accept"
                    /\ log' = "Accepted co"
                    /\ UNCHANGED <<phase, reveal_order_metrics, omega_v,
                                   reveal_order>>

\* H(s) == co   (submit_s line 143-144)
SMatchesCo(s, co) == hash_function(<<s>>) = co

\* variant: the reveal order is walked from its end
NextRevealerReversed ==
    reveal_order[Len(reveal_order) - DictLen(revealed_secrets_s)]

\* self.reveal_order[len(self.revealed_secrets_s)]
NextRevealer == reveal_order[DictLen(revealed_secrets_s) + 1]

\* len(self.revealed_secrets_s) == len(self.participant_addresses)
AllSecretsIn(stored) == DictLen(stored) = Cardinality(participant_addresses)

\* variant: the secrets are concatenated in address order
FinalRandomnessByAddress(order, secrets) ==
    hash_function([i \in 1..Len(order) |->
        secrets[CHOOSE a \in DOMAIN secrets :
                   /\ secrets[a] # None
                   /\ Cardinality({b \in DOMAIN secrets :
                                     secrets[b] # None /\ b < a}) = i - 1]])

\* _compute_final_randomness: H(b''.join(secrets in reveal order))
FinalRandomness(order, secrets) ==
    hash_function([i \in 1..Len(order) |-> secrets[order[i]]])

\* variant: submit_s that finalises once all but one secret are in, hashing
\* the secrets it has
submit_s_early(sender_address, s) ==
    /\ call' = Call("submit_s", sender_address)
    /\ UNCHANGED <<leaderVars, verifierVars, deployed>>
    /\ IF phase # "REVEAL2" THEN Reject("Invalid phase for s submission")
       ELSE IF sender_address \notin participant_addresses
            THEN Reject("Unknown participant address")
       ELSE IF InDict(sender_address, revealed_secrets_s)
            THEN Reject("Duplicate s submission")
       ELSE IF ~InDict(sender_address, commitments_co) THEN Raise
       ELSE IF ~SMatchesCo(s, commitments_co[sender_address])
            THEN Reject("Invalid s: hash mismatch")
       ELSE IF DictLen(revealed_secrets_s) >= Len(reveal_order) THEN Raise
       ELSE IF sender_address # NextRevealer
            THEN Reject("Invalid reveal order")
       ELSE LET stored == [revealed_secrets_s EXCEPT ![sender_address] = s]
                have == SelectSeq(reveal_order, LAMBDA a : stored[a] # None)
            IN
            /\ revealed_secrets_s' = stored
            /\ ret' = "accept"
            /\ UNCHANGED <<participant_addresses, commitments_cv, commitments_co,
                           reveal_order_metrics, omega_v, reveal_order>>
            /\ IF DictLen(stored) >= Cardinality(participant_addresses) - 1
               THEN /\ omega_o' = FinalRandomness(have, stored)
                    /\ phase' = "DONE"
                    /\ log' = "Advanced to DONE phase"
               ELSE /\ log' = "Accepted s"
                    /\ UNCHANGED <<omega_o, phase>>

\* submit_s
submit_s(sender_address, s) ==
    /\ call' = Call("submit_s", sender_address)
    /\ UNCHANGED <<leaderVars, verifierVars, deployed>>
    /\ IF phase # "REVEAL2" THEN Reject("Invalid phase for s submission")
       ELSE IF sender_address \notin participant_addresses
            THEN Reject("Unknown participant address")
       ELSE IF InDict(sender_address, revealed_secrets_s)
            THEN Reject("Duplicate s submission")
       ELSE IF ~InDict(sender_address, commitments_co) THEN Raise
       ELSE IF ~SMatchesCo(s, commitments_co[sender_address])
            THEN Reject("Invalid s: hash mismatch")
       ELSE IF DictLen(revealed_secrets_s) >= Len(reveal_order) THEN Raise
       ELSE IF sender_address # NextRevealer
            THEN Reject("Invalid reveal order")
       ELSE LET stored == [revealed_secrets_s EXCEPT ![sender_address] = s] IN
            /\ revealed_secrets_s' = stored
            /\ ret' = "accept"
            /\ UNCHANGED <<participant_addresses, commitments_cv, commitments_co,
                           reveal_order_metrics, omega_v, reveal_order>>
            /\ IF AllSecretsIn(stored)
               THEN /\ omega_o' = FinalRandomness(reveal_order, stored)
                    /\ phase' = "DONE"
                    /\ log' = "Advanced to DONE phase"
               ELSE /\ log' = "Accepted s"
                    /\ UNCHANGED <<omega_o, phase>>

\* get_final_randomness
get_final_randomness == IF phase = "DONE" THEN omega_o ELSE None

\* variant: reset without `self.revealed_secrets_s.clear()`
reset_keeps_secrets ==
    /\ phase' = "COMMIT"
    /\ commitments_cv' = EmptyDict
    /\ commitments_co' = EmptyDict
    /\ reveal_order_metrics' = EmptyDict
    /\ omega_v' = None
    /\ reveal_order' = <<>>
    /\ omega_o' = None
    /\ ret' = "none"
    /\ log' = "Reset contract state"
    /\ call' = Call("reset", 0)
    /\ UNCHANGED <<leaderVars, verifierVars, deployed>>
    /\ UNCHANGED <<participant_addresses, revealed_secrets_s>>

\* variant: reset without `self.reveal_order.clear()`
reset_keeps_order ==
    /\ phase' = "COMMIT"
    /\ commitments_cv' = EmptyDict
    /\ commitments_co' = EmptyDict
    /\ revealed_secrets_s' = EmptyDict
    /\ reveal_order_metrics' = EmptyDict
    /\ omega_v' = None
    /\ omega_o' = None
    /\ ret' = "none"
    /\ log' = "Reset contract state"
    /\ call' = Call("reset", 0)
    /\ UNCHANGED <<leaderVars, verifierVars, deployed>>
    /\ UNCHANGED <<participant_addresses, reveal_order>>

\* reset
reset ==
    /\ phase' = "COMMIT"
    /\ commitments_cv' = EmptyDict
    /\ commitments_co' = EmptyDict
    /\ revealed_secrets_s' = EmptyDict
    /\ reveal_order_metrics' = EmptyDict
    /\ omega_v' = None
    /\ reveal_order' = <<>>
    /\ omega_o' = None
    /\ ret' = "none"
    /\ log' = "Reset contract state"
    /\ call' = Call("reset", 0)
    /\ UNCHANGED <<leaderVars, verifierVars, deployed>>
    /\ UNCHANGED participant_addresses

Next ==
    \/ \E a \in Addresses, v \in HonestCv : submit_cv(a, v)
    \/ \E a \in Addresses, v \in Values : submit_co(a, v)
    \/ \E a \in Addresses, v \in Values : submit_s(a, v)
    \/ reset

Spec == Init /\ [][Next]_vars

\* ---- LeaderNode ----

\* SigningKey.sign draws a fresh nonce for every call, so one key signs one
\* message in more than one way; two nonces tell a signature from another of
\* the same message
Nonces == {0, 1}
Signatures == [key : VKeys, msg : Values, k : Nonces]

\* sign_message(private_key, message), for the private key of vk and the
\* nonce k the call draws
sign_message(vk, message, k) == [key |-> vk, msg |-> message, k |-> k]

\* variant: the key of the signature is not looked at
verify_signature_anykey(vk, message, signature) == signature.msg = message

\* verify_signature(public_key, message, signature)
verify_signature(vk, message, signature) ==
    signature.key = vk /\ signature.msg = message

\* MerkleTools._calculate_next_level: neighbours are hashed in pairs with the
\* tree's hash type, an odd last node is carried up unchanged.  A digest is
\* the term <<hash_type, left, right>>.
NextLevel(hash_type, level) ==
    LET n == Len(level)
        pairs == [i \in 1..(n \div 2) |->
                    <<hash_type, level[2 * i - 1], level[2 * i]>>]
    IN IF n % 2 = 1 THEN Append(pairs, level[n]) ELSE pairs

\* MerkleTools.make_tree / get_merkle_root over raw (do_hash=False) leaves
RECURSIVE MerkleRoot(_, _)
MerkleRoot(hash_type, leaves) ==
    IF leaves = <<>> THEN NoRoot
    ELSE IF Len(leaves) = 1 THEN leaves[1]
    ELSE MerkleRoot(hash_type, NextLevel(hash_type, leaves))

\* _build_merkle_tree_cv: leaves are the stored cv bytes in activation order
BuildMerkleRootCv(order, stored) ==
    MerkleRoot("sha3_256", [i \in 1..Len(order) |-> <<stored[order[i]][1]>>])

\* variant: a leader call that is turned down drops the opened commitments
LeaderRejectForgets(msg) ==
    /\ ret' = "reject"
    /\ log' = msg
    /\ received_co' = LeaderEmptyDict
    /\ UNCHANGED <<participants, address_to_vk, activated_addresses,
                   received_cv_signed, received_s_signed, merkle_root_cv,
                   leader_reveal_order, leader_omega_v, all_cv_received,
                   all_co_received, all_s_received>>

\* a leader call that logs an error and returns False
LeaderReject(msg) ==
    /\ ret' = "reject"
    /\ log' = msg
    /\ UNCHANGED leaderVars

\* variant: registering an address again replaces its key
add_participant_rekeys(address, public_key) ==
    /\ call' = Call("add_participant", address)
    /\ UNCHANGED <<contractVars, verifierVars, deployed>>
    /\ address_to_vk' = [address_to_vk EXCEPT ![address] = public_key]
    /\ UNCHANGED <<received_cv_signed, received_co, received_s_signed,
                   merkle_root_cv, leader_reveal_order, leader_omega_v,
                   all_cv_received, all_co_received, all_s_received>>
    /\ IF address \notin participants
       THEN /\ participants' = participants \cup {address}
            /\ activated_addresses' = Append(activated_addresses, address)
            /\ ret' = "accept"
            /\ log' = "Participant added"
       ELSE /\ ret' = "reject"
            /\ log' = "Participant already added"
            /\ UNCHANGED <<participants, activated_addresses>>

\* add_participant
add_participant(address, public_key) ==
    /\ call' = Call("add_participant", address)
    /\ UNCHANGED <<contractVars, verifierVars, deployed>>
    /\ IF address \notin participants
       THEN /\ participants' = participants \cup {address}
            /\ address_to_vk' = [address_to_vk EXCEPT ![address] = public_key]
            /\ activated_addresses' = Append(activated_addresses, address)
            /\ ret' = "accept"
            /\ log' = "Participant added"
            /\ UNCHANGED <<received_cv_signed, received_co, received_s_signed,
                           merkle_root_cv, leader_reveal_order, leader_omega_v,
                           all_cv_received, all_co_received, all_s_received>>
       ELSE LeaderReject("Participant already added")

\* receive_cv_offchain
receive_cv_offchain(sender, cv, signature) ==
    /\ call' = Call("receive_cv_offchain", sender)
    /\ UNCHANGED <<contractVars, verifierVars, deployed>>
    /\ IF sender \notin participants THEN LeaderReject("Unknown sender")
       ELSE IF address_to_vk[sender] = None THEN LeaderReject("Unknown sender")
       ELSE IF ~verify_signature(address_to_vk[sender], cv, signature)
            THEN LeaderReject("Invalid signature")
       ELSE LET stored == [received_cv_signed EXCEPT ![sender] = <<cv, signature>>]
            IN
            /\ received_cv_signed' = stored
            /\ ret' = "accept"
            /\ IF PairLen(stored) = Cardinality(participants)
               THEN /\ merkle_root_cv' =
                          BuildMerkleRootCv(activated_addresses, stored)
                    /\ log' = "Built Merkle tree"
               ELSE /\ log' = "Received valid C_v"
                    /\ UNCHANGED merkle_root_cv
            /\ UNCHANGED <<participants, address_to_vk, activated_addresses,
                           received_co, received_s_signed, leader_reveal_order,
                           leader_omega_v, all_cv_received, all_co_received,
                           all_s_received>>

\* functools.reduce(operator.xor, ...) over the cv list
RECURSIVE XorAll(_)
XorAll(cvs) ==
    IF Len(cvs) = 1 THEN cvs[1] ELSE Xor(cvs[1], XorAll(Tail(cvs)))

\* sorted(reveal_metrics.keys(), key=d): reveal_metrics is filled in
\* activation order and sorted() is stable, so equal d keep activation order
StableSorted(order, d) ==
    CHOOSE f \in Orderings({order[i] : i \in 1..Len(order)}) :
        \A i, j \in DOMAIN f : i < j =>
            \/ d[f[i]] < d[f[j]]
            \/ /\ d[f[i]] = d[f[j]]
               /\ \E x, y \in DOMAIN order :
                     x < y /\ order[x] = f[i] /\ order[y] = f[j]

\* _compute_reveal_order_offchain
compute_reveal_order_offchain ==
    IF ~all_cv_received
    THEN /\ log' = "Cannot compute reveal order before all C_v are received"
         /\ UNCHANGED <<leader_omega_v, leader_reveal_order>>
    ELSE LET all_cvs_ordered ==
                 [i \in 1..Len(activated_addresses) |->
                     received_cv_signed[activated_addresses[i]][1]]
             om == IF all_cvs_ordered = <<>> THEN 0 ELSE XorAll(all_cvs_ordered)
             d == [a \in PairKeys(received_cv_signed) |->
                     hash_function(<<Xor(om, received_cv_signed[a][1])>>)]
         IN IF \E i \in 1..Len(activated_addresses) :
                  received_cv_signed[activated_addresses[i]] = NoPair
            THEN /\ log' = "Missing C_v for activated address"
                 /\ UNCHANGED <<leader_omega_v, leader_reveal_order>>
            ELSE /\ leader_omega_v' = om
                 /\ leader_reveal_order' = StableSorted(activated_addresses, d)
                 /\ log' = "Computed reveal order"

\* receive_co_offchain
receive_co_offchain(sender, co) ==
    /\ call' = Call("receive_co_offchain", sender)
    /\ UNCHANGED <<contractVars, verifierVars, deployed>>
    /\ IF sender \notin participants THEN LeaderReject("Unknown sender")
       ELSE IF received_cv_signed[sender] = NoPair
            THEN LeaderReject("No verified C_v received")
       ELSE IF hash_function(<<co>>) # received_cv_signed[sender][1]
            THEN LeaderReject("Invalid C_o")
       ELSE LET stored == [received_co EXCEPT ![sender] = co] IN
            /\ received_co' = stored
            /\ ret' = "accept"
            /\ IF DictLen(stored) = Cardinality(participants)
               THEN compute_reveal_order_offchain
               ELSE /\ log' = "Received valid C_o"
                    /\ UNCHANGED <<leader_omega_v, leader_reveal_order>>
            /\ UNCHANGED <<participants, address_to_vk, activated_addresses,
                           received_cv_signed, received_s_signed,
                           merkle_root_cv, all_cv_received, all_co_received,
                           all_s_received>>

\* receive_s_offchain
receive_s_offchain(sender, s) ==
    /\ call' = Call("receive_s_offchain", sender)
    /\ UNCHANGED <<contractVars, verifierVars, deployed>>
    /\ IF sender \notin participants THEN LeaderReject("Unknown sender")
       ELSE IF leader_reveal_order = <<>>
            THEN LeaderReject("Reveal order not yet computed")
       ELSE IF PairLen(received_s_signed) >= Len(leader_reveal_order)
            THEN \* IndexError
                 /\ ret' = "raise"
                 /\ UNCHANGED <<leaderVars, log>>
       ELSE IF sender # leader_reveal_order[PairLen(received_s_signed) + 1]
            THEN LeaderReject("Wrong reveal order")
       ELSE IF received_co[sender] = None THEN LeaderReject("No C_o received")
       ELSE IF hash_function(<<s>>) # received_co[sender]
            THEN LeaderReject("Invalid secret")
       ELSE LET stored == [received_s_signed EXCEPT
                             ![sender] = <<s, received_cv_signed[sender][2]>>]
            IN
            /\ received_s_signed' = stored
            /\ ret' = "accept"
            /\ IF PairLen(stored) = Cardinality(participants)
               THEN /\ all_s_received' = TRUE
                    /\ log' = "All secrets received"
               ELSE /\ log' = "Received valid secret"
                    /\ UNCHANGED all_s_received
            /\ UNCHANGED <<participants, address_to_vk, activated_addresses,
                           received_cv_signed, received_co, merkle_root_cv,
                           leader_reveal_order, leader_omega_v,
                           all_cv_received, all_co_received>>

\* get_final_submission_data: (secrets, signatures) in activation order
get_final_submission_data ==
    IF ~all_s_received THEN None
    ELSE <<[i \in 1..Len(activated_addresses) |->
               received_s_signed[activated_addresses[i]][1]],
           [i \in 1..Len(activated_addresses) |->
               received_s_signed[activated_addresses[i]][2]]>>

\* a fresh LeaderNode; the direct contract is not part of this run
InitLeader ==
    /\ deployed = "leader"
    /\ LeaderFresh
    /\ VerifierFresh
    /\ participant_addresses = {}
    /\ phase = "COMMIT"
    /\ commitments_cv = EmptyDict
    /\ commitments_co = EmptyDict
    /\ revealed_secrets_s = EmptyDict
    /\ reveal_order_metrics = EmptyDict
    /\ omega_v = None
    /\ reveal_order = <<>>
    /\ omega_o = None
    /\ ret = "none"
    /\ log = "Leader initialized"
    /\ call = Call("__init__", 0)

\* the signatures offered to the leader: any key over any such commitment.
\* The leader reads a signature only through verify_signature and hands it
\* on as it came, so one signature per key and message is offered.
OfferedSignatures == {sign_message(k, m, 0) : k \in VKeys, m \in HonestCv}

\* the signatures offered with the commitment cv of sender a: the sender's
\* own over cv, its own over another commitment, and another key's over cv
SignaturesFor(a, cv) ==
    {sig \in OfferedSignatures : sig.key = OwnKey(a) \/ sig.msg = cv}

\* the opened commitments co = H(s) participants derive from their secrets
HonestCo == {hash_function(<<s>>) : s \in Secrets}

NextLeader ==
    \/ \E a \in LeaderAddresses : add_participant(a, OwnKey(a))
    \/ \E a \in LeaderAddresses, v \in HonestCv :
          \E sig \in SignaturesFor(a, v) : receive_cv_offchain(a, v, sig)
    \/ \E a \in LeaderAddresses, v \in HonestCo : receive_co_offchain(a, v)
    \/ \E a \in LeaderAddresses, v \in Secrets : receive_s_offchain(a, v)

SpecLeader == InitLeader /\ [][NextLeader]_vars

\* ---- HybridContract ----

\* co = hash_function(s); cv = hash_function(co)   (lines 72-73), worked
\* out once for every 32-byte value
CvTable == [s \in Values |-> hash_function(<<hash_function(<<s>>)>>)]
CvOfSecret(s) == CvTable[s]

\* a verifier call that logs an error and returns False
VerifierReject(msg) ==
    /\ ret' = "reject"
    /\ log' = msg
    /\ UNCHANGED verifierVars

\* HybridContract.add_participant: returns nothing, logs only when it registers
hc_add_participant(address, verification_key) ==
    /\ call' = Call("add_participant", address)
    /\ UNCHANGED <<contractVars, leaderVars, deployed>>
    /\ ret' = "none"
    /\ IF participant_vks[address] = None
       THEN /\ participant_vks' =
                  [participant_vks EXCEPT ![address] = verification_key]
            /\ hc_activated_addresses' = Append(hc_activated_addresses, address)
            /\ log' = "Registered participant"
            /\ UNCHANGED <<leader_address, hc_merkle_root_cv, hc_omega_o,
                           hc_phase>>
       ELSE UNCHANGED <<verifierVars, log>>

\* variant: submit_merkle_root_cv without the phase check
submit_merkle_root_cv_nophase(sender_address, root) ==
    /\ call' = Call("submit_merkle_root_cv", sender_address)
    /\ UNCHANGED <<contractVars, leaderVars, deployed>>
    /\ IF sender_address # leader_address
       THEN VerifierReject("Only leader can submit Merkle root")
       ELSE /\ hc_merkle_root_cv' = root
            /\ hc_phase' = "AWAITING_SECRETS"
            /\ UNCHANGED <<leader_address, participant_vks,
                           hc_activated_addresses, hc_omega_o>>
            /\ IF root = NoRoot
               THEN ret' = "raise" /\ UNCHANGED log
               ELSE ret' = "accept" /\ log' = "Merkle root submitted"

\* submit_merkle_root_cv
submit_merkle_root_cv(sender_address, root) ==
    /\ call' = Call("submit_merkle_root_cv", sender_address)
    /\ UNCHANGED <<contractVars, leaderVars, deployed>>
    /\ IF sender_address # leader_address
       THEN VerifierReject("Only leader can submit Merkle root")
       ELSE IF hc_phase # "AWAITING_ROOT"
            THEN VerifierReject("Invalid phase for root submission")
       ELSE /\ hc_merkle_root_cv' = root
            /\ hc_phase' = "AWAITING_SECRETS"
            /\ UNCHANGED <<leader_address, participant_vks,
                           hc_activated_addresses, hc_omega_o>>
            /\ IF root = NoRoot
               THEN \* root.hex() of None in the log line: AttributeError,
                    \* after both attributes were written
                    /\ ret' = "raise"
                    /\ UNCHANGED log
               ELSE /\ ret' = "accept"
                    /\ log' = "Merkle root submitted"

\* variant: the signatures are not looked at
SignaturesVerifyNone(secrets, signatures) == TRUE

\* the loop of lines 66-78: signatures[i] verifies over H(H(secrets[i]))
\* under the key of the i-th activated address
SignaturesVerify(secrets, signatures) ==
    \A i \in 1..Len(hc_activated_addresses) :
        verify_signature(participant_vks[hc_activated_addresses[i]],
                         CvOfSecret(secrets[i]), signatures[i])

\* the root rebuilt from the cv leaves, added in activation order
\* (lines 63, 81-85)
ComputedRoot(secrets) ==
    MerkleRoot("keccak_256",
               [i \in 1..Len(secrets) |-> <<CvOfSecret(secrets[i])>>])

\* variant: the rebuilt root is not compared with the stored one
RootMatchesAlways(secrets) == TRUE

\* computed_root == self.merkle_root_cv   (line 86)
RootMatches(secrets) == ComputedRoot(secrets) = hc_merkle_root_cv

\* what holds of a final batch in the verifier's state: both arrays have a
\* place per registered participant ("wrong sizes" if not); each signature
\* is one of its participant's key over H(H(secret)) ("bad signature" if
\* not); the keccak_256 tree over the H(H(secret)) leaves has the stored
\* root ("other root" if not)
BatchChecks(secrets, signatures) ==
    LET n == Len(hc_activated_addresses) IN
    IF Len(secrets) # n \/ Len(signatures) # n THEN "wrong sizes"
    ELSE IF \E i \in 1..n :
               \/ signatures[i].key # participant_vks[hc_activated_addresses[i]]
               \/ signatures[i].msg # CvOfSecret(secrets[i])
         THEN "bad signature"
    ELSE IF \/ hc_merkle_root_cv = NoRoot
            \/ MerkleRoot("keccak_256",
                   [i \in 1..n |-> <<CvOfSecret(secrets[i])>>])
                 # hc_merkle_root_cv
         THEN "other root"
    ELSE "verified"

\* the call being served when it is generate_random_number: the method, the
\* sender, and what holds of the batch it was handed
BatchCall(sender, secrets, signatures) ==
    [op |-> "generate_random_number", sender |-> sender,
     batch |-> BatchChecks(secrets, signatures)]

\* generate_random_number
generate_random_number(sender_address, secrets, signatures) ==
    /\ call' = BatchCall(sender_address, secrets, signatures)
    /\ UNCHANGED <<contractVars, leaderVars, deployed>>
    /\ IF sender_address # leader_address
       THEN VerifierReject("Only leader can submit final data")
       ELSE IF hc_phase # "AWAITING_SECRETS"
            THEN VerifierReject("Invalid phase for secret submission")
       ELSE IF \/ Len(secrets) # Len(hc_activated_addresses)
               \/ Len(signatures) # Len(hc_activated_addresses)
            THEN VerifierReject("Mismatched number of secrets or signatures")
       ELSE IF ~SignaturesVerify(secrets, signatures)
            THEN VerifierReject("Invalid signature")
       ELSE IF ComputedRoot(secrets) = NoRoot
            THEN \* no leaf: get_merkle_root() is None and bytes.fromhex
                 \* raises TypeError
                 /\ ret' = "raise"
                 /\ UNCHANGED <<verifierVars, log>>
       ELSE IF ~RootMatches(secrets)
            THEN VerifierReject("Merkle root mismatch")
       ELSE /\ hc_omega_o' = hash_function(secrets)
            /\ hc_phase' = "DONE"
            /\ ret' = "accept"
            /\ log' = "Random number generated"
            /\ UNCHANGED <<leader_address, participant_vks,
                           hc_activated_addresses, hc_merkle_root_cv>>

\* HybridContract.get_final_randomness
hc_get_final_randomness == IF hc_phase # "DONE" THEN None ELSE hc_omega_o

\* variant: reset leaves omega_o as it is
hc_reset_keeps_omega ==
    /\ hc_merkle_root_cv' = NoRoot
    /\ hc_phase' = "AWAITING_ROOT"
    /\ ret' = "none"
    /\ log' = "Contract state reset"
    /\ call' = Call("reset", 0)
    /\ UNCHANGED <<leader_address, participant_vks, hc_activated_addresses,
                   hc_omega_o>>
    /\ UNCHANGED <<contractVars, leaderVars, deployed>>

\* HybridContract.reset: the registered participants stay
hc_reset ==
    /\ hc_merkle_root_cv' = NoRoot
    /\ hc_omega_o' = None
    /\ hc_phase' = "AWAITING_ROOT"
    /\ ret' = "none"
    /\ log' = "Contract state reset"
    /\ call' = Call("reset", 0)
    /\ UNCHANGED <<leader_address, participant_vks, hc_activated_addresses>>
    /\ UNCHANGED <<contractVars, leaderVars, deployed>>

\* no direct contract is part of the run
NoContract ==
    /\ participant_addresses = {}
    /\ phase = "COMMIT"
    /\ commitments_cv = EmptyDict
    /\ commitments_co = EmptyDict
    /\ revealed_secrets_s = EmptyDict
    /\ reveal_order_metrics = EmptyDict
    /\ omega_v = None
    /\ reveal_order = <<>>
    /\ omega_o = None

\* a fresh HybridContract on its own; its constructor logs nothing
InitHybrid ==
    /\ deployed = "verifier"
    /\ VerifierFresh
    /\ LeaderFresh
    /\ NoContract
    /\ ret = "none"
    /\ log = ""
    /\ call = Call("__init__", 0)

\* who calls the verifier: the leader, and a participant for every caller
\* that is not the leader
VerifierSenders == {LeaderAddress, NumLeaderAddr}

\* a secret for each registered participant, in activation order
SecretsPerPlace == [1..Len(hc_activated_addresses) -> Secrets]

\* the roots handed to the verifier: that of the tree with a leaf for the
\* commitment of each participant's secret, for any choice of secrets, and
\* None, which is leader.merkle_root_cv before the leader has built its tree
PublishedRoots ==
    {NoRoot} \cup
    {MerkleRoot("keccak_256", [i \in 1..Len(ss) |-> <<CvOfSecret(ss[i])>>]) :
        ss \in SecretsPerPlace}

\* the signatures the registered participants made over the commitments of
\* the secrets ss, in activation order
SignedBy(ss) ==
    [i \in 1..Len(hc_activated_addresses) |->
        sign_message(OwnKey(hc_activated_addresses[i]), CvOfSecret(ss[i]), 0)]

\* what a leader may do to the batch it sends: nothing; cut an array short
\* by one; replace the secret at one place by another secret; replace the
\* signature at one place by another signature of the
\* same message under the same key, by one under another participant's
\* key, or by one over the commitment of another secret
Tamperings ==
    {[kind |-> k, at |-> 0] :
        k \in {"none", "short secrets", "short signatures", "short both"}}
    \cup {[kind |-> k, at |-> i] :
              k \in {"secret", "resigned", "key", "message"},
              i \in LeaderAddresses}

AllButLast(q) == SubSeq(q, 1, Len(q) - 1)

\* the secrets of the batch for ss after tampering t
BatchSecrets(ss, t) ==
    IF t.kind \in {"short secrets", "short both"} THEN AllButLast(ss)
    ELSE IF t.kind = "secret" /\ t.at \in DOMAIN ss
         THEN [ss EXCEPT ![t.at] = (@ + 1) % NumSecrets]
    ELSE ss

\* the signatures of the batch for ss after tampering t
BatchSignatures(ss, t) ==
    LET sigs == SignedBy(ss) IN
    IF t.kind \in {"short signatures", "short both"} THEN AllButLast(sigs)
    ELSE IF t.at \notin DOMAIN sigs THEN sigs
    ELSE IF t.kind = "resigned"
         THEN [sigs EXCEPT ![t.at] = sign_message(@.key, @.msg, 1 - @.k)]
    ELSE IF t.kind = "key"
         THEN [sigs EXCEPT ![t.at] =
                  sign_message((@.key % NumLeaderAddr) + 1, @.msg, @.k)]
    ELSE IF t.kind = "message"
         THEN [sigs EXCEPT ![t.at] =
                  sign_message(@.key,
                               CvOfSecret((ss[t.at] + 1) % NumSecrets), @.k)]
    ELSE sigs

NextHybrid ==
    \/ \E a \in LeaderAddresses : hc_add_participant(a, OwnKey(a))
    \/ \E sender \in VerifierSenders, root \in PublishedRoots :
          submit_merkle_root_cv(sender, root)
    \/ \E ss \in SecretsPerPlace, t \in Tamperings :
          generate_random_number(LeaderAddress, BatchSecrets(ss, t),
                                 BatchSignatures(ss, t))
    \/ \E sender \in VerifierSenders \ {LeaderAddress}, ss \in SecretsPerPlace :
          generate_random_number(sender, ss, SignedBy(ss))
    \/ hc_reset

SpecHybrid == InitHybrid /\ [][NextHybrid]_vars

\* ---- a hybrid run: the leader and the verifier it reports to, driven as
\* in run_hybrid_simulation.py and tests/test_hybrid.py ----
InitHybridRun ==
    /\ deployed = "hybrid"
    /\ LeaderFresh
    /\ VerifierFresh
    /\ NoContract
    /\ ret = "none"
    /\ log = "Leader initialized"
    /\ call = Call("__init__", 0)

\* phase 2 of the run: the leader's merkle_root_cv is handed to the verifier
publish_merkle_root == submit_merkle_root_cv(leader_address, merkle_root_cv)

\* bytes([x ^ 1 for x in root]): a root that differs from root in the low
\* bit of every byte
FlipBits(root) == <<"flipped", root>>

\* test_invalid_merkle_proof: the leader's root is handed over with bits
\* flipped (of no root there are no bytes to flip)
publish_modified_root ==
    /\ merkle_root_cv # NoRoot
    /\ submit_merkle_root_cv(leader_address, FlipBits(merkle_root_cv))

\* phase 5 of the run: the leader's final data, if it has any, is handed to
\* generate_random_number
submit_final_data ==
    IF ~all_s_received
    THEN /\ call' = Call("get_final_submission_data", leader_address)
         /\ ret' = "none"
         /\ log' = "Failed to get final submission data"
         /\ UNCHANGED <<contractVars, leaderVars, verifierVars, deployed>>
    ELSE generate_random_number(leader_address, get_final_submission_data[1],
                                get_final_submission_data[2])

NextHybridRun ==
    \/ \E a \in LeaderAddresses : add_participant(a, OwnKey(a))
    \/ \E a \in LeaderAddresses : hc_add_participant(a, OwnKey(a))
    \/ \E a \in LeaderAddresses, v \in HonestCv :
          \E sig \in SignaturesFor(a, v) : receive_cv_offchain(a, v, sig)
    \/ publish_merkle_root
    \/ publish_modified_root
    \/ \E a \in LeaderAddresses, v \in HonestCo : receive_co_offchain(a, v)
    \/ \E a \in LeaderAddresses, v \in Secrets : receive_s_offchain(a, v)
    \/ submit_final_data

SpecHybridRun == InitHybridRun /\ [][NextHybridRun]_vars

\* ---- enrolment: registration with the leader or with the verifier under
\* any key, and the commitments the leader then collects ----
InitEnrolment == InitLeader \/ InitHybrid

\* the keys an address is registered under: its own, or the next
\* participant's
KeysFor(a) == {OwnKey(a), OwnKey((a % NumLeaderAddr) + 1)}

NextEnrolment ==
    \/ /\ deployed = "leader"
       /\ \E a \in LeaderAddresses : \E k \in KeysFor(a) : add_participant(a, k)
    \/ /\ deployed = "leader"
       /\ \E a \in LeaderAddresses, v \in HonestCv :
             \E sig \in SignaturesFor(a, v) : receive_cv_offchain(a, v, sig)
    \/ /\ deployed = "verifier"
       /\ \E a \in LeaderAddresses : \E k \in KeysFor(a) :
             hc_add_participant(a, k)
    \/ /\ deployed = "verifier"
       /\ hc_reset

SpecEnrolment == InitEnrolment /\ [][NextEnrolment]_vars

\* ---- either ledger: a run deploys the direct contract or the hybrid
\* verifier, and calls only the one it deployed ----
InitLedger == Init \/ InitHybrid

NextLedger ==
    \/ deployed = "direct" /\ Next
    \/ deployed = "verifier" /\ NextHybrid

SpecLedger == InitLedger /\ [][NextLedger]_vars

\* ---- the direct contract called from two threads ----
\* The class takes no lock, so when two threads call submit_cv on one
\* instance the interpreter may switch between them after any statement.
\* Each thread runs submit_cv statement by statement; here `call` and `ret`
\* hold one entry per thread: the call the thread is serving with the line
\* it has reached, and what its last call returned.

Threads == {1, 2}

\* the thread is between calls
Idle(t) == call[t].pc = "idle"

\* the statement of submit_cv the thread executes next
At(t, line) == call[t].op = "submit_cv" /\ call[t].pc = line

\* the thread moves on to another line of its call
Goto(t, line) == call' = [call EXCEPT ![t].pc = line]

\* `return False` after a warning
ThreadReturnsFalse(t, msg) ==
    /\ call' = [call EXCEPT ![t].pc = "idle"]
    /\ ret' = [ret EXCEPT ![t] = "reject"]
    /\ log' = msg
    /\ UNCHANGED contractVars

InitThreads ==
    /\ deployed = "direct"
    /\ LeaderFresh
    /\ VerifierFresh
    /\ participant_addresses \in SUBSET Addresses
    /\ phase = "COMMIT"
    /\ commitments_cv = EmptyDict
    /\ commitments_co = EmptyDict
    /\ revealed_secrets_s = EmptyDict
    /\ reveal_order_metrics = EmptyDict
    /\ omega_v = None
    /\ reveal_order = <<>>
    /\ omega_o = None
    /\ ret = [t \in Threads |-> "none"]
    /\ log = "Initialized contract"
    /\ call = [t \in Threads |->
                 [op |-> "__init__", sender |-> 0, cv |-> 0, pc |-> "idle",
                  advanced |-> FALSE]]

\* a thread enters submit_cv(sender_address, cv)
thread_calls_submit_cv(t, sender_address, cv) ==
    /\ Idle(t)
    /\ call' = [call EXCEPT ![t] =
                   [op |-> "submit_cv", sender |-> sender_address, cv |-> cv,
                    pc |-> "phase check", advanced |-> FALSE]]
    /\ UNCHANGED <<contractVars, leaderVars, verifierVars, deployed, ret, log>>

\* if self.phase != Phase.COMMIT   (line 59)
thread_checks_phase(t) ==
    /\ At(t, "phase check")
    /\ IF phase # "COMMIT"
       THEN ThreadReturnsFalse(t, "Invalid phase for cv submission")
       ELSE Goto(t, "membership check") /\ UNCHANGED <<contractVars, ret, log>>
    /\ UNCHANGED <<leaderVars, verifierVars, deployed>>

\* if sender_address not in self.participant_addresses   (line 63)
thread_checks_membership(t) ==
    /\ At(t, "membership check")
    /\ IF call[t].sender \notin participant_addresses
       THEN ThreadReturnsFalse(t, "Unknown participant address")
       ELSE Goto(t, "duplicate check") /\ UNCHANGED <<contractVars, ret, log>>
    /\ UNCHANGED <<leaderVars, verifierVars, deployed>>

\* if sender_address in self.commitments_cv   (line 67)
thread_checks_duplicate(t) ==
    /\ At(t, "duplicate check")
    /\ IF InDict(call[t].sender, commitments_cv)
       THEN ThreadReturnsFalse(t, "Duplicate cv submission")
       ELSE Goto(t, "write") /\ UNCHANGED <<contractVars, ret, log>>
    /\ UNCHANGED <<leaderVars, verifierVars, deployed>>

\* self.commitments_cv[sender_address] = cv   (line 72)
thread_writes_cv(t) ==
    /\ At(t, "write")
    /\ commitments_cv' = [commitments_cv EXCEPT ![call[t].sender] = call[t].cv]
    /\ log' = "Accepted cv"
    /\ Goto(t, "count check")
    /\ UNCHANGED <<participant_addresses, phase, commitments_co,
                   revealed_secrets_s, reveal_order_metrics, omega_v,
                   reveal_order, omega_o>>
    /\ UNCHANGED <<leaderVars, verifierVars, deployed, ret>>

\* if len(self.commitments_cv) == len(self.participant_addresses)   (line 76)
thread_checks_count(t) ==
    /\ At(t, "count check")
    /\ IF DictLen(commitments_cv) = Cardinality(participant_addresses)
       THEN Goto(t, "advance")
       ELSE Goto(t, "return")
    /\ UNCHANGED <<contractVars, leaderVars, verifierVars, deployed, ret, log>>

\* self.phase = Phase.REVEAL1   (line 77)
thread_advances_phase(t) ==
    /\ At(t, "advance")
    /\ phase' = "REVEAL1"
    /\ log' = "Advanced to REVEAL1 phase"
    /\ call' = [call EXCEPT ![t].pc = "return", ![t].advanced = TRUE]
    /\ UNCHANGED <<participant_addresses, commitments_cv, commitments_co,
                   revealed_secrets_s, reveal_order_metrics, omega_v,
                   reveal_order, omega_o>>
    /\ UNCHANGED <<leaderVars, verifierVars, deployed, ret>>

\* return True   (line 80)
thread_returns_true(t) ==
    /\ At(t, "return")
    /\ call' = [call EXCEPT ![t].pc = "idle"]
    /\ ret' = [ret EXCEPT ![t] = "accept"]
    /\ UNCHANGED <<contractVars, leaderVars, verifierVars, deployed, log>>

NextThreads ==
    \/ \E t \in Threads, a \in Addresses, v \in HonestCv :
          thread_calls_submit_cv(t, a, v)
    \/ \E t \in Threads : thread_checks_phase(t)
    \/ \E t \in Threads : thread_checks_membership(t)
    \/ \E t \in Threads : thread_checks_duplicate(t)
    \/ \E t \in Threads : thread_writes_cv(t)
    \/ \E t \in Threads : thread_checks_count(t)
    \/ \E t \in Threads : thread_advances_phase(t)
    \/ \E t \in Threads : thread_returns_true(t)

SpecThreads == InitThreads /\ [][NextThreads]_vars

\* ---- either place where a reveal order is fixed: a run has the direct
\* contract or the off-chain leader ----
InitOrdering == Init \/ InitLeader

NextOrdering ==
    \/ deployed = "direct" /\ Next
    \/ deployed = "leader" /\ NextLeader

SpecOrdering == InitOrdering /\ [][NextOrdering]_vars

\* ---- properties of the leader ----

\* C9: once a cv is accepted for an address, a later receive_cv_offchain for
\* that address is rejected and the stored (cv, signature) never changes.
C9_LeaderCvFirstWriteWins ==
    [][\A a \in LeaderAddresses :
          received_cv_signed[a] # NoPair =>
              /\ received_cv_signed'[a] = received_cv_signed[a]
              /\ (call'.op = "receive_cv_offchain" /\ call'.sender = a)
                    => ret' = "reject"]_vars

\* ---- properties of the direct contract ----

IsReset == call' = Call("reset", 0)
SubmitOps == {"submit_cv", "submit_co", "submit_s"}
LastRevealer == reveal_order[Len(reveal_order)]

\* C1: between resets the phase moves only COMMIT -> REVEAL1 -> REVEAL2 ->
\* DONE, one step at a time; no submit call moves it backward or skips one.
C1_PhaseForwardOnly ==
    [][call'.op \in SubmitOps =>
         \/ phase' = phase
         \/ <<phase, phase'>> \in {<<"COMMIT", "REVEAL1">>,
                                   <<"REVEAL1", "REVEAL2">>,
                                   <<"REVEAL2", "DONE">>}]_vars

C1_Witness == phase = "DONE" /\ ret = "accept"

\* C2: for every N >= 1 registered addresses the co that completes the set
\* is accepted, fixes the reveal order and moves the phase to REVEAL2: no
\* state has a co for every registered address while the phase is REVEAL1.
C2_AllCoImpliesReveal2 ==
    (participant_addresses # {} /\ Keys(commitments_co) = participant_addresses)
        => /\ phase \in {"REVEAL2", "DONE"}
           /\ Len(reveal_order) = Cardinality(participant_addresses)

\* C3: every honest submission (a registered sender storing a fresh valid
\* entry in the phase of its kind) is accepted, and the phase is DONE from
\* the call that stores the N-th secret on, not earlier.
C3_HonestRunAccepted ==
    [][call'.op \in SubmitOps =>
         /\ (\/ commitments_cv' # commitments_cv
             \/ commitments_co' # commitments_co
             \/ revealed_secrets_s' # revealed_secrets_s) => ret' = "accept"
         /\ (Keys(commitments_co') = participant_addresses
                 /\ participant_addresses # {})
               => phase' \in {"REVEAL2", "DONE"}
         /\ phase' = "DONE" <=> (Keys(revealed_secrets_s') = participant_addresses
                                  /\ participant_addresses # {})]_vars

\* C4: a secret is accepted only from reveal_order[k], k the number of
\* secrets already accepted; the addresses with a stored secret are exactly
\* the first k entries of the reveal order.
RevealedIsPrefix ==
    /\ DictLen(revealed_secrets_s) <= Len(reveal_order)
    /\ Keys(revealed_secrets_s) =
           {reveal_order[i] : i \in 1..DictLen(revealed_secrets_s)}

C4_RevealInOrder ==
    [][/\ RevealedIsPrefix'
       /\ (call'.op = "submit_s" /\ revealed_secrets_s' # revealed_secrets_s)
            => /\ call'.sender = reveal_order[DictLen(revealed_secrets_s) + 1]
               /\ revealed_secrets_s' =
                     [revealed_secrets_s EXCEPT
                        ![call'.sender] = revealed_secrets_s'[call'.sender]]
       /\ (call'.op = "submit_s" /\ phase = "REVEAL2"
              /\ call'.sender # reveal_order[DictLen(revealed_secrets_s) + 1])
            => (ret' = "reject" /\ UNCHANGED contractVars)]_vars

\* an out-of-order secret with a valid hash chain was turned down
C4_Witness ==
    /\ log = "Invalid reveal order"
    /\ call.op = "submit_s"
    /\ call.sender \in participant_addresses
    /\ DictLen(revealed_secrets_s) < Len(reveal_order)

\* C5: while the last address of the reveal order has not submitted its s,
\* no call other than reset takes the phase out of REVEAL2, and
\* get_final_randomness stays None.
C5_LastRevealerWithholds ==
    [][(/\ phase = "REVEAL2"
        /\ Len(reveal_order) > 0
        /\ ~IsReset
        /\ revealed_secrets_s'[LastRevealer] = None)
          => (phase' = "REVEAL2" /\ get_final_randomness' = None)]_vars

\* all but the last revealer have revealed and a further call was refused
C5_Witness ==
    /\ phase = "REVEAL2"
    /\ Len(reveal_order) >= 2
    /\ Keys(revealed_secrets_s) = participant_addresses \ {LastRevealer}
    /\ ret = "reject"
    /\ get_final_randomness = None

\* C6: every stored co hashes to the stored cv of its address and every
\* stored s hashes to the stored co; a submit_co or submit_s that stores
\* nothing (so any whose value fails the check) is rejected with the stores
\* and the phase unchanged.
HashChainHolds ==
    \A a \in Addresses :
        /\ commitments_co[a] # None
             => hash_function(<<commitments_co[a]>>) = commitments_cv[a]
        /\ revealed_secrets_s[a] # None
             => hash_function(<<revealed_secrets_s[a]>>) = commitments_co[a]

C6_HashChain ==
    [][/\ HashChainHolds'
       /\ (\/ call'.op = "submit_co" /\ commitments_co' = commitments_co
           \/ call'.op = "submit_s" /\ revealed_secrets_s' = revealed_secrets_s
           \/ log' \in {"Invalid co: hash mismatch",
                        "Invalid s: hash mismatch"})
            => /\ ret' = "reject"
               /\ UNCHANGED <<phase, commitments_cv, commitments_co,
                              revealed_secrets_s>>]_vars

C6_Witness ==
    /\ log = "Invalid s: hash mismatch"
    /\ ret = "reject"
    /\ Keys(commitments_co) = participant_addresses

\* C7: in REVEAL2 and DONE the reveal order is a permutation of the
\* registered addresses.
C7_RevealOrderPermutation ==
    phase \in {"REVEAL2", "DONE"}
       => /\ Len(reveal_order) = Cardinality(participant_addresses)
          /\ {reveal_order[i] : i \in 1..Len(reveal_order)} = participant_addresses

C7_Witness ==
    /\ phase = "REVEAL2"
    /\ log = "Advanced to REVEAL2 phase"
    /\ Len(reveal_order) = 2

\* C8: a further cv, co or s from an address that already has one stored is
\* rejected in every phase and changes nothing.
C8_DuplicateRejected ==
    [][(\/ call'.op = "submit_cv" /\ commitments_cv[call'.sender] # None
        \/ call'.op = "submit_co" /\ commitments_co[call'.sender] # None
        \/ call'.op = "submit_s" /\ revealed_secrets_s[call'.sender] # None)
          => (ret' = "reject" /\ UNCHANGED contractVars)]_vars

C8_Witness ==
    /\ log = "Duplicate cv submission"
    /\ call.op = "submit_cv"
    /\ commitments_cv[call.sender] # None
    /\ phase = "COMMIT"

\* C10: every submit call returns accept or reject, and when it does not
\* accept every state variable is as before the call.
C10_AtomicCalls ==
    [][call'.op \in SubmitOps =>
         /\ ret' \in {"accept", "reject"}
         /\ ret' # "accept" => UNCHANGED contractVars]_vars

\* the registered addresses that have an accepted cv
CvCount ==
    Cardinality({a \in participant_addresses : commitments_cv[a] # None})

\* C11: with N >= 1 registered addresses the phase is COMMIT exactly while
\* fewer than N of them have an accepted cv, and it leaves COMMIT only to
\* REVEAL1, in the accepted submit_cv call that stores the N-th cv.
C11_CommitUntilLastCv ==
    [][participant_addresses # {} =>
         /\ phase' = "COMMIT" <=> CvCount' < Cardinality(participant_addresses)
         /\ (phase = "COMMIT" /\ phase' # "COMMIT")
              => /\ call'.op = "submit_cv"
                 /\ ret' = "accept"
                 /\ phase' = "REVEAL1"
                 /\ CvCount = Cardinality(participant_addresses) - 1
                 /\ CvCount' = Cardinality(participant_addresses)]_vars

\* the third of three cv has just moved the phase on
C11_Witness ==
    /\ phase = "REVEAL1"
    /\ call.op = "submit_cv"
    /\ log = "Advanced to REVEAL1 phase"
    /\ CvCount = 3
    /\ Cardinality(participant_addresses) = 3

\* the accepted secrets, in reveal order
SecretsInRevealOrder ==
    [i \in DOMAIN reveal_order |-> revealed_secrets_s[reveal_order[i]]]

\* C13: in DONE omega_o is H of the accepted secrets concatenated in reveal
\* order, so it is a function of the address-to-secret mapping and the
\* reveal order alone, whatever the order the cv and co came in.
C13_OmegaOfSecretsInOrder ==
    phase = "DONE" =>
        /\ \A i \in DOMAIN reveal_order : revealed_secrets_s[reveal_order[i]] # None
        /\ omega_o = Absorb(0, SecretsInRevealOrder)

\* a finished run whose reveal order is not the order of the addresses
C13_Witness ==
    /\ phase = "DONE"
    /\ omega_o # None
    /\ Len(reveal_order) = 2
    /\ reveal_order[1] > reveal_order[2]
    /\ revealed_secrets_s[reveal_order[1]] # revealed_secrets_s[reveal_order[2]]

\* ---- properties of the hybrid verifier ----

\* C17: generate_random_number is accepted only from the leader, in
\* AWAITING_SECRETS, for a batch whose two arrays have a place per registered
\* participant, whose signatures[i] verifies over H(H(secrets[i])) under the
\* key of the i-th activated address and whose H(H(s)) leaves, in activation
\* order, rebuild the stored root; the accepting call sets omega_o to H of
\* the secrets concatenated in activation order and the phase to DONE.
C17_AcceptedBatchIsVerified ==
    [][(call'.op = "generate_random_number" /\ ret' = "accept") =>
         /\ call'.sender = leader_address
         /\ hc_phase = "AWAITING_SECRETS"
         /\ call'.batch = "verified"
         /\ hc_phase' = "DONE"
         /\ \E ss \in SecretsPerPlace :
               /\ MerkleRoot("keccak_256",
                     [i \in 1..Len(ss) |->
                        <<hash_function(<<hash_function(<<ss[i]>>)>>)>>])
                    = hc_merkle_root_cv
               /\ hc_omega_o' = Absorb(0, ss)]_vars

\* a batch of two was accepted
C17_Witness ==
    /\ call.op = "generate_random_number"
    /\ ret = "accept"
    /\ hc_phase = "DONE"
    /\ Len(hc_activated_addresses) = 2
    /\ hc_omega_o # None

VerifierPhaseRank(p) ==
    CASE p = "AWAITING_ROOT" -> 0
      [] p = "AWAITING_SECRETS" -> 1
      [] p = "DONE" -> 2

\* C19: the verifier accepts a root only from the leader address and only in
\* AWAITING_ROOT, and the accept moves it to AWAITING_SECRETS with a root
\* stored; in AWAITING_ROOT no call of the leader can leave another root
\* stored than the one it was handed; a stored root changes only by reset;
\* a batch is accepted only in AWAITING_SECRETS and moves to DONE, and only
\* reset moves the phase back, so that between two resets at most one root
\* and at most one batch are accepted
C19_OneRootFromLeader ==
    /\ [](hc_phase = "AWAITING_ROOT" =>
            \A root \in PublishedRoots :
                ~ENABLED (/\ submit_merkle_root_cv(leader_address, root)
                          /\ ~(/\ hc_merkle_root_cv' = root
                               /\ hc_phase' = "AWAITING_SECRETS")))
    /\ [][/\ (call'.op = "submit_merkle_root_cv" /\ ret' = "accept") =>
               /\ call'.sender = leader_address
               /\ hc_phase = "AWAITING_ROOT"
               /\ hc_phase' = "AWAITING_SECRETS"
               /\ hc_merkle_root_cv' # NoRoot
          /\ (call'.op = "generate_random_number" /\ ret' = "accept") =>
               /\ hc_phase = "AWAITING_SECRETS"
               /\ hc_phase' = "DONE"
          /\ (hc_merkle_root_cv # NoRoot /\ call'.op # "reset") =>
               hc_merkle_root_cv' = hc_merkle_root_cv
          /\ call'.op # "reset" =>
               VerifierPhaseRank(hc_phase') >= VerifierPhaseRank(hc_phase)
      ]_vars

\* a second root, offered by the leader after one was accepted, was turned
\* down and the first is still stored
C19_Witness ==
    /\ call = Call("submit_merkle_root_cv", leader_address)
    /\ ret = "reject"
    /\ log = "Invalid phase for root submission"
    /\ hc_phase = "AWAITING_SECRETS"
    /\ hc_merkle_root_cv # NoRoot
    /\ Len(hc_activated_addresses) = 2

\* the leader's call of generate_random_number with this batch would be
\* accepted in the current state
WouldAccept(secrets, signatures) ==
    ENABLED (/\ generate_random_number(leader_address, secrets, signatures)
             /\ ret' = "accept")

\* the leader's call with this batch would return False and leave the
\* verifier as it is
WouldReject(secrets, signatures) ==
    ENABLED (/\ generate_random_number(leader_address, secrets, signatures)
             /\ ret' = "reject"
             /\ UNCHANGED verifierVars)

\* every generate_random_number call that returned False left the phase,
\* the stored root and omega_o as they were
RejectedBatchChangesNothing ==
    [][(call'.op = "generate_random_number" /\ ret' = "reject") =>
         UNCHANGED <<hc_phase, hc_merkle_root_cv, hc_omega_o>>]_vars

\* C18 as stated: of a batch the verifier would accept, every replacement of
\* one secret by a different secret and of one signature by a different
\* signature would be rejected, and a rejection changes nothing
C18_AnyReplacementRejected ==
    /\ [](hc_phase = "AWAITING_SECRETS" =>
            \A ss \in SecretsPerPlace :
                WouldAccept(ss, SignedBy(ss)) =>
                    \A i \in DOMAIN ss :
                        /\ \A s \in Secrets \ {ss[i]} :
                              WouldReject([ss EXCEPT ![i] = s], SignedBy(ss))
                        /\ \A sig \in Signatures \ {SignedBy(ss)[i]} :
                              WouldReject(ss, [SignedBy(ss) EXCEPT ![i] = sig]))
    /\ RejectedBatchChangesNothing

\* C18: of a batch the verifier would accept, every replacement of one
\* secret by a different secret, and of one signature by a signature that
\* is not one of that participant's key over the commitment H(H(s)) of that
\* place, would be rejected leaving the verifier as it is; and every call
\* that was rejected left the phase, the stored root and omega_o unchanged
C18_TamperedBatchRejected ==
    /\ [](hc_phase = "AWAITING_SECRETS" =>
            \A ss \in SecretsPerPlace :
                WouldAccept(ss, SignedBy(ss)) =>
                    \A i \in DOMAIN ss :
                        /\ \A s \in Secrets \ {ss[i]} :
                              WouldReject([ss EXCEPT ![i] = s], SignedBy(ss))
                        /\ \A sig \in Signatures :
                              (\/ sig.key # participant_vks[hc_activated_addresses[i]]
                               \/ sig.msg # hash_function(<<hash_function(<<ss[i]>>)>>))
                              => WouldReject(ss, [SignedBy(ss) EXCEPT ![i] = sig]))
    /\ RejectedBatchChangesNothing

\* a batch with one signature replaced was turned down for its signature,
\* and the batch it was made from would still be accepted
C18_Witness ==
    /\ call.op = "generate_random_number"
    /\ call.sender = leader_address
    /\ call.batch = "bad signature"
    /\ ret = "reject"
    /\ log = "Invalid signature"
    /\ hc_phase = "AWAITING_SECRETS"
    /\ Len(hc_activated_addresses) = 2
    /\ \E ss \in SecretsPerPlace : WouldAccept(ss, SignedBy(ss))

\* ---- properties of both ledgers ----

\* C12: in the direct contract and in the hybrid verifier alike,
\* get_final_randomness returns a value exactly when the phase is DONE and
\* None in every other phase, and omega_o is set exactly when the phase is
\* DONE
C12_RandomnessExactlyInDone ==
    /\ (get_final_randomness # None) <=> (phase = "DONE")
    /\ (omega_o # None) <=> (phase = "DONE")
    /\ (hc_get_final_randomness # None) <=> (hc_phase = "DONE")
    /\ (hc_omega_o # None) <=> (hc_phase = "DONE")

\* the verifier is DONE and hands out the omega_o it stored
C12_Witness ==
    /\ deployed = "verifier"
    /\ hc_phase = "DONE"
    /\ hc_get_final_randomness = hc_omega_o
    /\ hc_omega_o \in Values

\* ---- properties of the reveal order ----

\* C14: the reveal order is computed at most once per run and never changes
\* afterwards. In the direct contract reveal_order is written only by the
\* call that enters REVEAL2 and by reset, and from REVEAL2 on it stays as
\* it is until reset; in the leader no call changes a reveal_order that is
\* non-empty.
C14_RevealOrderFixedOnce ==
    [][/\ (reveal_order' # reveal_order) =>
             \/ call'.op = "submit_co" /\ phase = "REVEAL1" /\ phase' = "REVEAL2"
             \/ call'.op = "reset"
       /\ (phase \in {"REVEAL2", "DONE"} /\ call'.op # "reset") =>
             reveal_order' = reveal_order
       /\ (leader_reveal_order # <<>>) =>
             leader_reveal_order' = leader_reveal_order
      ]_vars

\* the contract went through REVEAL2 to DONE with its order of two in place
C14_Witness ==
    /\ deployed = "direct"
    /\ phase = "DONE"
    /\ call.op = "submit_s"
    /\ Len(reveal_order) = 2
    /\ revealed_secrets_s[reveal_order[2]] # None

\* ---- properties of the leader: the reveal order ----

\* every registered participant has an accepted cv and an accepted co
LeaderAllCoIn(cvs, cos) ==
    /\ participants # {}
    /\ \A a \in participants : cvs[a] # NoPair /\ cos[a] # None

\* d = H(Omega XOR cv) of participant a over the stored cv values, Omega
\* being the XOR of all of them
LeaderMetric(cvs, a) ==
    LET om == XorAll([i \in 1..Len(activated_addresses) |->
                         cvs[activated_addresses[i]][1]])
    IN hash_function(<<Xor(om, cvs[a][1])>>)

\* C16: the accepted receive_co_offchain call after which every registered
\* participant has an accepted cv and an accepted co leaves reveal_order
\* non-empty, with one entry per registered participant, sorted ascending
\* by d = H(Omega XOR cv) over the stored cv values
C16_LastCoFixesOrder ==
    [][(/\ call'.op = "receive_co_offchain"
        /\ ret' = "accept"
        /\ LeaderAllCoIn(received_cv_signed', received_co')) =>
          /\ leader_reveal_order' # <<>>
          /\ Len(leader_reveal_order') = Cardinality(participants)
          /\ {leader_reveal_order'[i] : i \in DOMAIN leader_reveal_order'}
                = participants
          /\ \A i, j \in DOMAIN leader_reveal_order' : i < j =>
                LeaderMetric(received_cv_signed', leader_reveal_order'[i])
                   <= LeaderMetric(received_cv_signed', leader_reveal_order'[j])
      ]_vars

\* ---- properties of a hybrid run ----

\* the honest part of a run up to the secrets: the participants are
\* registered with the leader and the verifier in the same order, every
\* one has its cv and co accepted by the leader, and the leader's root is
\* the one the verifier stored
HonestRunUpToSecrets ==
    /\ activated_addresses # <<>>
    /\ hc_activated_addresses = activated_addresses
    /\ LeaderAllCoIn(received_cv_signed, received_co)
    /\ hc_phase = "AWAITING_SECRETS"
    /\ hc_merkle_root_cv = merkle_root_cv

\* C15: an honest hybrid run goes through to DONE: once registration, every
\* cv, every co and the root are in, some participant's secret is accepted
\* by the leader, or the leader's final data is handed over and accepted
\* with the verifier DONE and omega_o set
C15_HonestHybridRunCompletes ==
    HonestRunUpToSecrets =>
        \/ \E a \in participants, s \in Secrets :
              ENABLED (receive_s_offchain(a, s) /\ ret' = "accept")
        \/ ENABLED (/\ submit_final_data
                    /\ ret' = "accept"
                    /\ hc_phase' = "DONE"
                    /\ hc_omega_o' # None)

\* C20: the verifier accepts from the leader no root other than the Merkle
\* root of the cv commitments the leader collected
C20_ModifiedRootRejected ==
    [][(call'.op = "submit_merkle_root_cv" /\ ret' = "accept") =>
         hc_merkle_root_cv' = merkle_root_cv]_vars

\* ---- properties of the leader: secrets and final data ----

CvWouldBeRejected(sender, cv, signature) ==
    ~ENABLED (/\ receive_cv_offchain(sender, cv, signature)
              /\ ~(ret' = "reject" /\ UNCHANGED leaderVars))

\* C23: the leader turns down, changing nothing, every cv whose sender is
\* not registered or whose signature is not one of the sender's registered
\* key over that cv; every receive_cv_offchain call that returned False
\* left the leader as it was; and every stored (cv, signature) pair is a
\* signature of the key registered for its address over the stored cv
C23_CvNeedsRegisteredKey ==
    /\ [](\A a \in LeaderAddresses, v \in HonestCv, sig \in OfferedSignatures :
            (\/ a \notin participants
             \/ sig.key # address_to_vk[a]
             \/ sig.msg # v) => CvWouldBeRejected(a, v, sig))
    /\ [](\A a \in LeaderAddresses :
            received_cv_signed[a] # NoPair =>
                /\ a \in participants
                /\ received_cv_signed[a][2].key = address_to_vk[a]
                /\ received_cv_signed[a][2].msg = received_cv_signed[a][1])
    /\ [][(call'.op = "receive_cv_offchain" /\ ret' # "accept") =>
            (ret' = "reject" /\ UNCHANGED leaderVars)]_vars

\* a cv signed with the sender's own key was turned down because the
\* sender is registered under another key, while another cv is stored
C23_Witness ==
    /\ call.op = "receive_cv_offchain"
    /\ ret = "reject"
    /\ log = "Invalid signature"
    /\ call.sender \in participants
    /\ address_to_vk[call.sender] # OwnKey(call.sender)
    /\ \E a \in participants : received_cv_signed[a] # NoPair

\* the activation list has no address twice
NoDuplicates(q) == \A i, j \in DOMAIN q : q[i] = q[j] => i = j

\* q is p, or p with entries added at its end
IsPrefix(p, q) == Len(p) <= Len(q) /\ SubSeq(q, 1, Len(p)) = p

\* C24: registering with the leader or with the verifier an address that
\* is registered changes nothing (the leader returns False); a new address
\* goes to the end of the activation list with a key; so the activation
\* list never has an address twice, only grows at its end, and a
\* registered address keeps its key
C24_RegisteredOnce ==
    /\ [](NoDuplicates(activated_addresses) /\ NoDuplicates(hc_activated_addresses))
    /\ [][/\ (deployed = "leader" /\ call'.op = "add_participant") =>
               IF call'.sender \in participants
               THEN ret' = "reject" /\ UNCHANGED leaderVars
               ELSE /\ ret' = "accept"
                    /\ activated_addresses' =
                          Append(activated_addresses, call'.sender)
                    /\ address_to_vk'[call'.sender] \in VKeys
          /\ (deployed = "verifier" /\ call'.op = "add_participant") =>
               IF participant_vks[call'.sender] # None
               THEN UNCHANGED verifierVars
               ELSE /\ hc_activated_addresses' =
                          Append(hc_activated_addresses, call'.sender)
                    /\ participant_vks'[call'.sender] \in VKeys
          /\ IsPrefix(activated_addresses, activated_addresses')
          /\ IsPrefix(hc_activated_addresses, hc_activated_addresses')
          /\ \A a \in LeaderAddresses :
                /\ address_to_vk[a] # None => address_to_vk'[a] = address_to_vk[a]
                /\ participant_vks[a] # None =>
                      participant_vks'[a] = participant_vks[a]
      ]_vars

\* the leader turned down a second registration of an address that keeps
\* the other participant's key it was first registered with
C24_Witness ==
    /\ deployed = "leader"
    /\ call.op = "add_participant"
    /\ ret = "reject"
    /\ Len(activated_addresses) = 2
    /\ address_to_vk[call.sender] # OwnKey(call.sender)

\* ---- properties of both collectors: who may submit ----

\* the methods of the direct contract and of the leader that take a cv, co
\* or s
ContractSubmissions == {"submit_cv", "submit_co", "submit_s"}
LeaderSubmissions ==
    {"receive_cv_offchain", "receive_co_offchain", "receive_s_offchain"}

\* C25: neither the direct contract nor the leader ever accepts a cv, co or
\* s whose sender is not registered, in any phase. The keys of the three
\* stores of each are registered addresses in every reachable state; an
\* accepted submission comes from an address registered before the call;
\* and a submission from an unregistered address is rejected and leaves the
\* stores as they were.
C25_OnlyRegisteredSenders ==
    /\ [](/\ Keys(commitments_cv) \subseteq participant_addresses
          /\ Keys(commitments_co) \subseteq participant_addresses
          /\ Keys(revealed_secrets_s) \subseteq participant_addresses
          /\ PairKeys(received_cv_signed) \subseteq participants
          /\ Keys(received_co) \subseteq participants
          /\ PairKeys(received_s_signed) \subseteq participants)
    /\ [][/\ (call'.op \in ContractSubmissions /\ ret' = "accept") =>
                call'.sender \in participant_addresses
          /\ (call'.op \in ContractSubmissions
                 /\ call'.sender \notin participant_addresses) =>
                /\ ret' = "reject"
                /\ UNCHANGED <<commitments_cv, commitments_co,
                               revealed_secrets_s>>
          /\ (call'.op \in LeaderSubmissions /\ ret' = "accept") =>
                call'.sender \in participants
          /\ (call'.op \in LeaderSubmissions
                 /\ call'.sender \notin participants) =>
                /\ ret' = "reject"
                /\ UNCHANGED <<received_cv_signed, received_co,
                               received_s_signed>>
         ]_vars

\* the contract, past COMMIT with both registered addresses' cv stored,
\* turned down a co from an address that is not registered
C25_Witness ==
    /\ deployed = "direct"
    /\ call.op = "submit_co"
    /\ ret = "reject"
    /\ call.sender \notin participant_addresses
    /\ phase = "REVEAL1"
    /\ Keys(commitments_cv) = participant_addresses
    /\ Cardinality(participant_addresses) = 2

\* ---- properties of reset ----

\* the per-run attributes of a contract as __init__ leaves them
ContractAsConstructed ==
    /\ phase = "COMMIT"
    /\ commitments_cv = EmptyDict
    /\ commitments_co = EmptyDict
    /\ revealed_secrets_s = EmptyDict
    /\ reveal_order_metrics = EmptyDict
    /\ omega_v = None
    /\ reveal_order = <<>>
    /\ omega_o = None

\* C26: reset, in any reachable state, returns the engine to its initial
\* per-run state. The direct contract is as a contract constructed with the
\* same addresses: phase COMMIT, the three stores, the reveal order and the
\* metrics empty, omega_v and omega_o unset. The verifier is in
\* AWAITING_ROOT with root and omega_o unset, its participants kept. A run
\* started after reset works from new submissions only: while in COMMIT
\* nothing but cv is stored, and from REVEAL2 on omega_v and the metrics are
\* those of the cv now stored.
C26_ResetToInitial ==
    /\ [][call'.op = "reset" =>
            /\ deployed = "direct" =>
                  /\ ContractAsConstructed'
                  /\ participant_addresses' = participant_addresses
            /\ deployed = "verifier" =>
                  /\ hc_phase' = "AWAITING_ROOT"
                  /\ hc_merkle_root_cv' = NoRoot
                  /\ hc_omega_o' = None
                  /\ UNCHANGED <<leader_address, participant_vks,
                                 hc_activated_addresses>>
         ]_vars
    /\ [](/\ phase = "COMMIT" =>
                /\ commitments_co = EmptyDict
                /\ revealed_secrets_s = EmptyDict
                /\ reveal_order_metrics = EmptyDict
                /\ reveal_order = <<>>
                /\ omega_v = None
                /\ omega_o = None
          /\ phase \in {"REVEAL2", "DONE"} =>
                /\ omega_v = XorOfValues(commitments_cv)
                /\ reveal_order_metrics = Metrics(commitments_cv, omega_v)
                /\ reveal_order \in
                      SortedByMetric(participant_addresses, reveal_order_metrics)
          /\ hc_phase = "AWAITING_ROOT" =>
                hc_merkle_root_cv = NoRoot /\ hc_omega_o = None)

\* a contract with two registered addresses has just been reset
C26_Witness ==
    /\ deployed = "direct"
    /\ call.op = "reset"
    /\ ContractAsConstructed
    /\ Cardinality(participant_addresses) = 2

\* ---- properties of concurrent submissions ----

\* the thread's current or last call stored its cv: it is past the write,
\* or it has returned True
ThreadAccepted(t) ==
    /\ call[t].op = "submit_cv"
    /\ \/ call[t].pc \in {"count check", "advance", "return"}
       \/ call[t].pc = "idle" /\ ret[t] = "accept"

\* C27: when two submissions to one contract are processed concurrently,
\* each call's check, write and phase advance take effect as one unit: the
\* two threads never both have a submission for the same address accepted,
\* and the advance out of COMMIT is made by at most one of them.
C27_SubmissionsSerialised ==
    /\ ~(/\ ThreadAccepted(1)
         /\ ThreadAccepted(2)
         /\ call[1].sender = call[2].sender)
    /\ ~(call[1].advanced /\ call[2].advanced)

\* ---- properties of the aggregate and the reveal order ----

\* the byte-wise XOR of the cv of every address of S
RECURSIVE XorOverAddresses(_, _)
XorOverAddresses(S, cvs) ==
    IF S = {} THEN 0
    ELSE LET a == CHOOSE x \in S : TRUE
         IN Xor(cvs[a], XorOverAddresses(S \ {a}, cvs))

\* d = H(omega_v XOR cv[addr]) over the stored cv, omega_v being the XOR of
\* all of them
MetricOfAddress(addr) ==
    Absorb(0, <<Xor(XorOverAddresses(participant_addresses, commitments_cv),
                    commitments_cv[addr])>>)

\* C28: for every number N >= 1 of registered addresses, once the co of all
\* N is stored the contract's omega_v is the byte-wise XOR of the cv of all
\* N addresses, and reveal_order lists the N addresses in ascending order
\* of d = H(omega_v XOR cv[addr]).
C28_AggregateAndOrder ==
    (participant_addresses # {} /\ Keys(commitments_co) = participant_addresses)
        => /\ omega_v = XorOverAddresses(participant_addresses, commitments_cv)
           /\ {reveal_order[i] : i \in DOMAIN reveal_order} = participant_addresses
           /\ \A i, j \in DOMAIN reveal_order : i < j =>
                 MetricOfAddress(reveal_order[i]) <= MetricOfAddress(reveal_order[j])

\* C29: two addresses with equal d stand in the reveal order in ascending
\* order of the addresses themselves, in the direct contract and in the
\* leader, so the order is a function of the address-to-cv mapping alone.
C29_TiesByAddress ==
    /\ phase \in {"REVEAL2", "DONE"} =>
          \A i, j \in DOMAIN reveal_order :
             (/\ i < j
              /\ reveal_order_metrics[reveal_order[i]]
                    = reveal_order_metrics[reveal_order[j]])
                => reveal_order[i] < reveal_order[j]
    /\ \A i, j \in DOMAIN leader_reveal_order :
          (/\ i < j
           /\ LeaderMetric(received_cv_signed, leader_reveal_order[i])
                 = LeaderMetric(received_cv_signed, leader_reveal_order[j]))
             => leader_reveal_order[i] < leader_reveal_order[j]

\* ---- properties of the two Merkle trees ----

\* the final batches whose secrets open the cv the leader has stored, place
\* by place in activation order
SecretsOfStoredCv ==
    {ss \in [1..Len(activated_addresses) -> Secrets] :
        \A i \in DOMAIN ss :
           CvOfSecret(ss[i]) = received_cv_signed[activated_addresses[i]][1]}

\* C30: the leader and the verifier build the same tree from the same
\* ordered cv leaves (raw cv, activation order, one tree hash function):
\* whenever the leader has built its tree over the cv of every registered
\* participant, its root is the root the verifier rebuilds in
\* generate_random_number from secrets that open those cv.
C30_SameMerkleRoot ==
    (/\ participants # {}
     /\ \A a \in participants : received_cv_signed[a] # NoPair)
        => /\ merkle_root_cv # NoRoot
           /\ \A ss \in SecretsOfStoredCv : ComputedRoot(ss) = merkle_root_cv

\* ---- properties of the leader's Merkle root ----

\* C31: once the leader has computed merkle_root_cv it never changes for
\* the rest of the run: no later call leaves a different root.
C31_RootNeverRecomputed ==
    [][merkle_root_cv # NoRoot => merkle_root_cv' = merkle_root_cv]_vars

\* every registered participant has an accepted cv
AllCvStored(cvs) ==
    participants # {} /\ \A a \in participants : cvs[a] # NoPair

\* C32: in the leader merkle_root_cv is unset while any registered
\* participant lacks an accepted cv, is set by the receive_cv_offchain call
\* that completes the set, and whenever it is set it is the Merkle root
\* over the cv now stored for all participants now registered, in
\* activation order.
C32_RootTracksStoredCv ==
    /\ [](/\ ~AllCvStored(received_cv_signed) => merkle_root_cv = NoRoot
          /\ merkle_root_cv # NoRoot =>
                /\ AllCvStored(received_cv_signed)
                /\ merkle_root_cv =
                      MerkleRoot("sha3_256",
                                 [i \in 1..Len(activated_addresses) |->
                                    <<received_cv_signed[activated_addresses[i]][1]>>]))
    /\ [][(/\ call'.op = "receive_cv_offchain"
           /\ ret' = "accept"
           /\ AllCvStored(received_cv_signed')) => merkle_root_cv' # NoRoot]_vars

\* ---- properties of the secret stores ----

\* C33: no secret is stored, in the direct contract or in the leader, while
\* some registered address lacks an accepted co or the reveal order is not
\* fixed: the contract's secret store is empty throughout COMMIT and
\* REVEAL1 and is filled only with every co stored and the order in place;
\* the leader's is empty while its reveal_order is empty and is filled only
\* with every participant's co stored.
C33_NoSecretBeforeOrder ==
    /\ phase \in {"COMMIT", "REVEAL1"} => revealed_secrets_s = EmptyDict
    /\ Keys(revealed_secrets_s) # {} =>
          /\ Keys(commitments_co) = participant_addresses
          /\ reveal_order # <<>>
    /\ leader_reveal_order = <<>> => received_s_signed = LeaderEmptyPairs
    /\ PairKeys(received_s_signed) # {} =>
          \A a \in participants : received_co[a] # None

\* the contract, in REVEAL1 with a co stored, turned down a secret
C33_Witness ==
    /\ deployed = "direct"
    /\ phase = "REVEAL1"
    /\ call.op = "submit_s"
    /\ ret = "reject"
    /\ log = "Invalid phase for s submission"
    /\ Keys(commitments_co) # {}
    /\ commitments_co[call.sender] # None

\* ---- properties of the reveal position ----

\* the reveal orders _compute_reveal_order leaves for a dict of cv (none
\* when it raises)
OrdersFrom(cvs) ==
    IF ZipUnpacks(cvs)
    THEN SortedByMetric(participant_addresses, Metrics(cvs, XorOfValues(cvs)))
    ELSE {}

\* the dicts of cv in which every registered address has a cv and addr has
\* the cv it has now
OtherAssignments(addr) ==
    {w \in [Addresses -> Values \cup {None}] :
        /\ w[addr] = commitments_cv[addr]
        /\ \A x \in Addresses : (w[x] # None) <=> (x \in participant_addresses)}

\* the positions addr can get in a reveal order, over all cv of the others
PositionsOf(addr) ==
    UNION {{i \in DOMAIN o : o[i] = addr} :
              o \in UNION {OrdersFrom(w) : w \in OtherAssignments(addr)}}

\* C34: a participant's reveal position is not determined by its own cv
\* alone: for N >= 2 registered addresses and an address whose cv is
\* stored, there are two assignments of the others' cv that put the
\* address at different positions of the reveal order.
C34_PositionNotPinned ==
    \A addr \in participant_addresses :
       (/\ Cardinality(participant_addresses) >= 2
        /\ InDict(addr, commitments_cv))
          => Cardinality(PositionsOf(addr)) >= 2

\* ---- properties of the leader's stores ----

\* C35: in the leader every stored co hashes to the cv now stored for the
\* same address, and the signature stored with every secret s is one of
\* that address's registered key over H(H(s)), so every entry of the final
\* batch passes the verifier's signature check.
C35_LeaderStoresChain ==
    \A a \in LeaderAddresses :
       /\ received_co[a] # None =>
             /\ received_cv_signed[a] # NoPair
             /\ Absorb(0, <<received_co[a]>>) = received_cv_signed[a][1]
       /\ received_s_signed[a] # NoPair =>
             /\ received_s_signed[a][2].key = address_to_vk[a]
             /\ received_s_signed[a][2].msg =
                   Absorb(0, <<Absorb(0, <<received_s_signed[a][1]>>)>>)

\* ---- properties of the verifier's participant list ----

\* C36: the participant list generate_random_number checks a batch against
\* is the one registered when the root was accepted: from the accepted
\* submit_merkle_root_cv until reset, no call changes the registered keys
\* or the activation order.
C36_ParticipantsFixedAfterRoot ==
    [][(hc_phase \in {"AWAITING_SECRETS", "DONE"} /\ call'.op # "reset") =>
          /\ participant_vks' = participant_vks
          /\ hc_activated_addresses' = hc_activated_addresses]_vars

====
